---- MODULE Spec2Model ----
(***************************************************************************)
(* Model of the synthetic-pharmacophore generation script                  *)
(* ds_generation/main.py: determine_label, the_full_monty,                 *)
(* mp_full_monty, save_dfs_and_get_labels and the body of main.            *)
(*                                                                         *)
(* Conventions.  A Python string is a sequence of one-character strings.   *)
(* An optional value is a sequence of length at most one: None is <<>>     *)
(* and a present value v is <<v>>.  Python lists are sequences; Python     *)
(* dicts keyed by the 0-based sample index are functions on a set of       *)
(* naturals.                                                               *)
(***************************************************************************)
EXTENDS Integers, Sequences, FiniteSets, TLC

\* ------------------------------------------------------------------ bounds
\* largest number of path components of the ligands location
MaxComps == 2
\* largest number of *.sdf files found in a ligands directory
MaxFiles == 2
\* largest number of molecule records in the whole input
MaxMols == 2
\* largest number of positive coordinates assign_mol_label returns
MaxPoints == 2

\* ------------------------------------------------------- program constants
\* the retry budget of the label-forcing loop
RetryBudget == 100

\* ------------------------------------------------------------ basic values
None == <<>>
Some(v) == <<v>>

SeqsUpTo(S, n) == UNION {[1..k -> S] : k \in 0..n}

Min(a, b) == IF a <= b THEN a ELSE b

\* ------------------------------------------------------------------ strings
Active == <<"a", "c", "t", "i", "v", "e">>
Inactive == <<"i", "n", "a", "c", "t", "i", "v", "e">>
Decoy == <<"d", "e", "c", "o", "y">>
Lig == <<"l", "i", "g">>
Slash == <<"/">>
Dot == <<".">>
SdfExt == <<".", "s", "d", "f">>

\* names a directory or a file of the input can have
Components == {Active, Inactive, Decoy, Lig}

RECURSIVE JoinComps(_)
JoinComps(cs) ==
    IF cs = <<>> THEN <<>>
    ELSE IF Len(cs) = 1 THEN cs[1]
    ELSE cs[1] \o Slash \o JoinComps(Tail(cs))

\* str(Path(...)) of an absolute or relative path with components cs
PathStr(abs, cs) ==
    IF cs = <<>> THEN (IF abs THEN Slash ELSE Dot)
    ELSE (IF abs THEN Slash ELSE <<>>) \o JoinComps(cs)

PathSet == {PathStr(abs, cs) : abs \in BOOLEAN, cs \in SeqsUpTo(Components, MaxComps)}

\* paths that can name a single SDF file
FilePathSet == PathSet \ {Slash, Dot}

\* str(dir / name), as sdf_loc.glob('*.sdf') yields it
JoinPath(dir, name) ==
    IF dir = Dot THEN name
    ELSE IF dir = Slash THEN Slash \o name
    ELSE dir \o Slash \o name

\* str.find: lowest 0-based index of sub in s, -1 when absent
Find(s, sub) ==
    LET hits == {i \in 0..(Len(s) - Len(sub)) : SubSeq(s, i + 1, i + Len(sub)) = sub}
    IN  IF hits = {} THEN -1
        ELSE CHOOSE i \in hits : \A j \in hits : i <= j

\* truth value of a Python int used as a condition
Truthy(n) == n # 0

\* -------------------------------------------------------- determine_label
Returned(v) == [kind |-> "return", value |-> v]
RaisedRuntimeError == [kind |-> "raise", value |-> None]
Unset == [kind |-> "unset", value |-> None]

ForceLabelArgs == {-1, 0, 1, 2}

determine_label(fl, p) ==
    IF fl = 0 THEN Returned(Some(0))
    ELSE IF fl = 1 THEN Returned(Some(1))
    ELSE IF fl = 2 THEN
        IF Find(p, Inactive) # -1 \/ Find(p, Decoy) # -1 THEN Returned(Some(0))
        ELSE IF Truthy(Find(p, Active)) THEN Returned(Some(1))
        ELSE RaisedRuntimeError
    ELSE Returned(None)

\* ------------------------------------------------------------------- state
VARIABLES
    pc,                  \* position in main
    error,               \* exception that ended main, "" when none
    force_labels,        \* args.force_labels
    use_multiprocessing, \* args.use_multiprocessing
    mols,                \* loaded molecules, None for a malformed record
    path_labels,         \* the list `labels` built from determine_label
    work,                \* (ligand, force_label) pairs handed to the_full_monty
    results,             \* the list `results`
    m_pc,                \* position in the running the_full_monty call
    lig_mol,             \* its ligand
    force_label,         \* its force_label
    label,               \* its local `label`
    attempts,            \* its local `attempts`
    positive_coords,     \* its local `positive_coords`
    ret,                 \* its return value
    calls,               \* history: assign_mol_label calls made by the call
    matched,             \* history: some attempt produced force_label
    labels,              \* dict `labels` of save_dfs_and_get_labels
    atom_labels,         \* dict `atom_labels` of save_dfs_and_get_labels
    files,               \* sample files written below output_dir
    yamls,               \* yaml files written below output_dir
    path,                \* argument of a stand-alone determine_label call
    dl                   \* outcome of a stand-alone determine_label call

vars == <<pc, error, force_labels, use_multiprocessing, mols, path_labels, work,
          results, m_pc, lig_mol, force_label, label, attempts, positive_coords,
          ret, calls, matched, labels, atom_labels, files, yamls, path, dl>>

argVars == <<force_labels, use_multiprocessing>>
inputVars == <<mols, path_labels>>
frameVars == <<m_pc, lig_mol, force_label, label, attempts, positive_coords,
               ret, calls, matched>>
outputVars == <<labels, atom_labels, files, yamls>>
labelCallVars == <<path, dl>>

EmptyDict == [i \in {} |-> 0]

IdleFrame ==
    /\ m_pc = "idle"
    /\ lig_mol = None
    /\ force_label = None
    /\ label = -1
    /\ attempts = 0
    /\ positive_coords = <<>>
    /\ ret = None
    /\ calls = 0
    /\ matched = FALSE

Init ==
    /\ pc = "load"
    /\ error = ""
    /\ force_labels \in ForceLabelArgs
    /\ use_multiprocessing \in BOOLEAN
    /\ mols = <<>>
    /\ path_labels = <<>>
    /\ work = <<>>
    /\ results = <<>>
    /\ IdleFrame
    /\ labels = EmptyDict
    /\ atom_labels = EmptyDict
    /\ files = {}
    /\ yamls = {}
    /\ path = <<>>
    /\ dl = Unset

\* ------------------------------------------------------- loading the input
\* sequences of distinct file names: the matches of glob('*.sdf')
NameLists ==
    {ns \in SeqsUpTo(Components, MaxFiles) :
        \A i, j \in 1..Len(ns) : i # j => ns[i] # ns[j]}

\* validity of the records of one SDF file: FALSE is a malformed record
FileContents == SeqsUpTo(BOOLEAN, MaxMols)

RECURSIVE Flatten(_)
Flatten(ss) == IF ss = <<>> THEN <<>> ELSE Head(ss) \o Flatten(Tail(ss))

\* [mol for sup in sups for mol in sup]: a valid record is a ligand known by
\* its position, a malformed one is None
MolsOf(valid) == [i \in 1..Len(valid) |-> IF valid[i] THEN Some(i) ELSE None]

\* the lists mols that a directory of k SDF files can load
DirMols(k) ==
    {MolsOf(Flatten(c)) : c \in {d \in [1..k -> FileContents] : Len(Flatten(d)) <= MaxMols}}

\* [determine_label(sdf) for sdf in sdfs]; raises when one call raises
DirLabels(fl, dir, names) ==
    LET each == [i \in 1..Len(names) |-> determine_label(fl, JoinPath(dir, names[i] \o SdfExt))]
    IN  IF \E i \in 1..Len(names) : each[i].kind = "raise"
        THEN RaisedRuntimeError
        ELSE Returned([i \in 1..Len(names) |-> each[i].value])

DirLabelOutcomes(fl) == {DirLabels(fl, dir, names) : dir \in PathSet, names \in NameLists}

FileLabelOutcomes(fl) == {determine_label(fl, p) : p \in FilePathSet}

\* main, lines 161-174, when sdf_loc is a directory
LoadDir ==
    /\ pc = "load"
    /\ \E out \in DirLabelOutcomes(force_labels) :
        IF out.kind = "raise"
        THEN /\ pc' = "raised"
             /\ error' = "RuntimeError"
             /\ UNCHANGED inputVars
        ELSE /\ \E ms \in DirMols(Len(out.value)) : mols' = ms
             /\ path_labels' = out.value
             /\ pc' = "loaded"
             /\ UNCHANGED error
    /\ UNCHANGED <<argVars, work, results, frameVars, outputVars, labelCallVars>>

\* main, lines 161-174, when sdf_loc is one SDF file
LoadFile ==
    /\ pc = "load"
    /\ \E out \in FileLabelOutcomes(force_labels) :
        IF out.kind = "raise"
        THEN /\ pc' = "raised"
             /\ error' = "RuntimeError"
             /\ UNCHANGED inputVars
        ELSE /\ \E valid \in FileContents :
                /\ mols' = MolsOf(valid)
                /\ path_labels' = [i \in 1..Len(valid) |-> out.value]
             /\ pc' = "loaded"
             /\ UNCHANGED error
    /\ UNCHANGED <<argVars, work, results, frameVars, outputVars, labelCallVars>>

\* ------------------------------------------------- pairing ligands and labels
Pair(mol, lab) == [lig_mol |-> mol, force_label |-> lab]

\* zip of two lists stops at the shorter one
Zip(ms, ls) == [i \in 1..Min(Len(ms), Len(ls)) |-> Pair(ms[i], ls[i])]

NotNone(x) == x # None

PairIsMol(z) == NotNone(z.lig_mol)

\* [the_full_monty(mol, ..., label) for label, mol in zip(labels, mols)
\*  if mol is not None]
SeqPairs(ms, ls) == SelectSeq(Zip(ms, ls), PairIsMol)

\* mp_full_monty([mol for mol in mols if mol is not None], ..., labels):
\* Pool().map zips the filtered ligands with the unfiltered labels
MpPairs(ms, ls) == Zip(SelectSeq(ms, NotNone), ls)

\* main, lines 176-196: the calls of the_full_monty that will be made
StartGenerate ==
    /\ pc = "loaded"
    /\ work' = IF use_multiprocessing THEN MpPairs(mols, path_labels)
               ELSE SeqPairs(mols, path_labels)
    /\ results' = <<>>
    /\ pc' = "generate"
    /\ UNCHANGED <<error, argVars, inputVars, frameVars, outputVars, labelCallVars>>

\* ------------------------------------------------------------ the_full_monty
\* a point id stands for one positive coordinate
Points == 1..MaxPoints

\* what one call of assign_mol_label can return: the positive coordinates,
\* none of them when no sampled point is within the threshold
CoordOutcomes == {[i \in 1..k |-> i] : k \in 0..MaxPoints}

\* int(len(positive_coords) > 0), line 83
LabelOfCoords(coords) == IF Len(coords) > 0 THEN 1 ELSE 0

\* a loop that only asks whether an attempt was made yet
LoopContinues_FirstAttemptOnly(lab, forced) == lab = -1

\* while label != force_label, line 78
LoopContinues(lab, forced) == Some(lab) # forced

\* a budget test that is off by one
BudgetExhausted_OffByOne(n) == n = RetryBudget + 1

\* if attempts == 100, line 79
BudgetExhausted(n) == n = RetryBudget

\* the tuple the_full_monty returns, with the fields the caller reads
Sample(mol, coords) == [lig_mol |-> mol, positive_coords |-> coords]

\* main calls the_full_monty on the next pair; lines 63-71 build the
\* pharmacophore and set positive_coords = []
Call ==
    /\ pc = "generate"
    /\ m_pc = "idle"
    /\ Len(results) < Len(work)
    /\ LET w == work[Len(results) + 1]
       IN  /\ lig_mol' = w.lig_mol
           /\ force_label' = w.force_label
    /\ positive_coords' = <<>>
    /\ m_pc' = "entry"
    /\ UNCHANGED <<pc, error, argVars, inputVars, work, results, label, attempts,
                   ret, calls, matched, outputVars, labelCallVars>>

\* lines 72-74: no label is forced
AssignUnforced ==
    /\ m_pc = "entry"
    /\ force_label = None
    /\ \E c \in CoordOutcomes : positive_coords' = c
    /\ calls' = calls + 1
    /\ m_pc' = "tail"
    /\ UNCHANGED <<pc, error, argVars, inputVars, work, results, lig_mol,
                   force_label, label, attempts, ret, matched, outputVars,
                   labelCallVars>>

\* lines 75-77
EnterLoop ==
    /\ m_pc = "entry"
    /\ force_label # None
    /\ label' = -1
    /\ attempts' = 0
    /\ m_pc' = "loop"
    /\ UNCHANGED <<pc, error, argVars, inputVars, work, results, lig_mol,
                   force_label, positive_coords, ret, calls, matched, outputVars,
                   labelCallVars>>

\* lines 78-80: the budget is spent, the sample is discarded
GiveUp ==
    /\ m_pc = "loop"
    /\ LoopContinues(label, force_label)
    /\ BudgetExhausted(attempts)
    /\ ret' = None
    /\ m_pc' = "returned"
    /\ UNCHANGED <<pc, error, argVars, inputVars, work, results, lig_mol,
                   force_label, label, attempts, positive_coords, calls, matched,
                   outputVars, labelCallVars>>

\* lines 81-84: one more attempt
Attempt ==
    /\ m_pc = "loop"
    /\ LoopContinues(label, force_label)
    /\ ~BudgetExhausted(attempts)
    /\ \E c \in CoordOutcomes :
        /\ positive_coords' = c
        /\ label' = LabelOfCoords(c)
        /\ matched' = (matched \/ Some(LabelOfCoords(c)) = force_label)
    /\ attempts' = attempts + 1
    /\ calls' = calls + 1
    /\ UNCHANGED <<pc, error, argVars, inputVars, work, results, m_pc, lig_mol,
                   force_label, ret, outputVars, labelCallVars>>

\* line 78: the loop condition fails
ExitLoop ==
    /\ m_pc = "loop"
    /\ ~LoopContinues(label, force_label)
    /\ m_pc' = "tail"
    /\ UNCHANGED <<pc, error, argVars, inputVars, work, results, lig_mol,
                   force_label, label, attempts, positive_coords, ret, calls,
                   matched, outputVars, labelCallVars>>

\* lines 85-87
Return ==
    /\ m_pc = "tail"
    /\ ret' = Some(Sample(lig_mol, positive_coords))
    /\ m_pc' = "returned"
    /\ UNCHANGED <<pc, error, argVars, inputVars, work, results, lig_mol,
                   force_label, label, attempts, positive_coords, calls, matched,
                   outputVars, labelCallVars>>

\* the call's value becomes the next element of results; its frame is gone
Collect ==
    /\ pc = "generate"
    /\ m_pc = "returned"
    /\ results' = Append(results, ret)
    /\ m_pc' = "idle"
    /\ lig_mol' = None
    /\ force_label' = None
    /\ label' = -1
    /\ attempts' = 0
    /\ positive_coords' = <<>>
    /\ ret' = None
    /\ calls' = 0
    /\ matched' = FALSE
    /\ UNCHANGED <<pc, error, argVars, inputVars, work, outputVars, labelCallVars>>

\* ------------------------------------------------- save_dfs_and_get_labels
\* a label that counts the positive positions
SavedLabel_Count(positive_positions) == Len(positive_positions)

\* int(len(positive_positions) > 0), line 115
SavedLabel(positive_positions) == IF Len(positive_positions) > 0 THEN 1 ELSE 0

\* the indices i of range(len(results)) that pass `results[i] is None: continue`
KeptIndices(res) == {i \in 0..(Len(res) - 1) : res[i + 1] # None}

\* the value of results[i] (0-based) when it is not None
At(res, i) == res[i + 1][1]

SavedLabels(res) ==
    [i \in KeptIndices(res) |-> SavedLabel(At(res, i).positive_coords)]

\* atom_labels that gets a key only when there is a positive position
SavedAtomLabels_NonEmptyOnly(res) ==
    [i \in {k \in KeptIndices(res) : At(res, k).positive_coords # <<>>} |->
        At(res, i).positive_coords]

\* atom_labels is a defaultdict(list): atom_labels[i] += x creates key i
SavedAtomLabels(res) ==
    [i \in KeptIndices(res) |-> <<>> \o At(res, i).positive_coords]

FileKinds == {"lig_sdf", "pharm_sdf", "lig_parquet", "pharm_parquet"}

SavedFiles(res) == {<<k, i>> : k \in FileKinds, i \in KeptIndices(res)}

\* main, line 197
Save ==
    /\ pc = "generate"
    /\ m_pc = "idle"
    /\ Len(results) = Len(work)
    /\ labels' = SavedLabels(results)
    /\ atom_labels' = SavedAtomLabels(results)
    /\ files' = SavedFiles(results)
    /\ pc' = "saved_dfs"
    /\ UNCHANGED <<error, argVars, inputVars, work, results, frameVars, yamls,
                   labelCallVars>>

\* -------------------------------------------------------- the rest of main
\* lines 198-202: the discarded fraction divides by len(results)
ReportDiscarded ==
    /\ pc = "saved_dfs"
    /\ IF force_labels # -1 /\ Len(results) = 0
       THEN /\ pc' = "raised"
            /\ error' = "ZeroDivisionError"
            /\ UNCHANGED results
       ELSE /\ results' = SelectSeq(results, NotNone)
            /\ pc' = "filtered"
            /\ UNCHANGED error
    /\ UNCHANGED <<argVars, inputVars, work, frameVars, outputVars, labelCallVars>>

\* lines 204-207: the positive fraction divides by len(labels)
ReportPositive ==
    /\ pc = "filtered"
    /\ IF Cardinality(DOMAIN labels) = 0
       THEN /\ pc' = "raised"
            /\ error' = "ZeroDivisionError"
       ELSE /\ pc' = "reported"
            /\ UNCHANGED error
    /\ UNCHANGED <<argVars, inputVars, work, results, frameVars, outputVars,
                   labelCallVars>>

\* lines 208-209
SaveYaml ==
    /\ pc = "reported"
    /\ yamls' = {"atomic_labels.yaml", "labels.yaml"}
    /\ pc' = "saved_yaml"
    /\ UNCHANGED <<error, argVars, inputVars, work, results, frameVars, labels,
                   atom_labels, files, labelCallVars>>

Next ==
    \/ LoadDir
    \/ LoadFile
    \/ StartGenerate
    \/ Call
    \/ AssignUnforced
    \/ EnterLoop
    \/ GiveUp
    \/ Attempt
    \/ ExitLoop
    \/ Return
    \/ Collect
    \/ Save
    \/ ReportDiscarded
    \/ ReportPositive
    \/ SaveYaml

Spec == Init /\ [][Next]_vars

\* ------------------------------------- one call of the_full_monty on its own
InitMonty ==
    /\ pc = "the_full_monty"
    /\ error = ""
    /\ force_labels = -1
    /\ use_multiprocessing = FALSE
    /\ mols = <<>>
    /\ path_labels = <<>>
    /\ work = <<>>
    /\ results = <<>>
    /\ m_pc = "entry"
    /\ lig_mol = Some(1)
    /\ force_label \in {None, Some(0), Some(1)}
    /\ label = -1
    /\ attempts = 0
    /\ positive_coords = <<>>
    /\ ret = None
    /\ calls = 0
    /\ matched = FALSE
    /\ labels = EmptyDict
    /\ atom_labels = EmptyDict
    /\ files = {}
    /\ yamls = {}
    /\ path = <<>>
    /\ dl = Unset

NextMonty ==
    \/ AssignUnforced
    \/ EnterLoop
    \/ GiveUp
    \/ Attempt
    \/ ExitLoop
    \/ Return

\* a Python call runs until it returns: a step that can be taken is taken
FairMonty == InitMonty /\ [][NextMonty]_vars /\ WF_vars(NextMonty)

\* --------------------------------------- one call of determine_label on its own
InitLabel ==
    /\ pc = "determine_label"
    /\ error = ""
    /\ force_labels \in ForceLabelArgs
    /\ use_multiprocessing = FALSE
    /\ mols = <<>>
    /\ path_labels = <<>>
    /\ work = <<>>
    /\ results = <<>>
    /\ IdleFrame
    /\ labels = EmptyDict
    /\ atom_labels = EmptyDict
    /\ files = {}
    /\ yamls = {}
    /\ path \in PathSet
    /\ dl = Unset

DetermineLabel ==
    /\ pc = "determine_label"
    /\ dl' = determine_label(force_labels, path)
    /\ pc' = "determined"
    /\ UNCHANGED <<error, argVars, inputVars, work, results, frameVars, outputVars,
                   path>>

NextLabel == DetermineLabel

SpecLabel == InitLabel /\ [][NextLabel]_vars

\* ================================================================== claims
\* s contains sub as a substring
Contains(s, sub) ==
    \E i \in 1..(Len(s) - Len(sub) + 1) : SubSeq(s, i, i + Len(sub) - 1) = sub

\* the forced call has returned
ForcedReturned == m_pc = "returned" /\ force_label # None

\* C1: a call of the_full_monty with force_label in {0, 1} terminates; it
\* calls assign_mol_label at most 100 times, makes no call after the first
\* attempt whose label equals force_label, and returns None exactly when
\* all 100 attempts were made and none produced the forced label.
C1_RetryBudget ==
    /\ [](calls <= RetryBudget)
    /\ [](ForcedReturned => ((ret = None) <=> (calls = RetryBudget /\ ~matched)))
    /\ [][matched => calls' = calls]_vars
    /\ <>(m_pc = "returned")

\* a forced call that spent the whole budget and discarded the sample
C1_Witness == ForcedReturned /\ ret = None /\ calls = RetryBudget

\* C2: a non-None result of the_full_monty(force_label = f), f in {0, 1},
\* has positive_coords non-empty iff f = 1, and the label
\* save_dfs_and_get_labels records for it equals f.
C2_KeptHasForcedLabel ==
    /\ (ForcedReturned /\ ret # None) =>
           ((Len(ret[1].positive_coords) > 0) <=> (force_label = Some(1)))
    /\ pc = "saved_dfs" =>
           \A i \in DOMAIN labels :
               work[i + 1].force_label # None =>
                   Some(labels[i]) = work[i + 1].force_label

\* samples were saved, one forced to 1 and kept, one forced and discarded
C2_Witness ==
    /\ pc = "saved_dfs"
    /\ \E i \in DOMAIN labels : work[i + 1].force_label = Some(1) /\ labels[i] = 1
    /\ \E j \in 1..Len(results) : results[j] = None

\* C3: the label recorded for a kept sample is 1 iff the positive
\* coordinates the_full_monty got from assign_mol_label are non-empty and 0
\* otherwise; every recorded label is in {0, 1} and atom_labels[i] is
\* non-empty iff labels[i] = 1.
C3_LabelIffPositive ==
    /\ (m_pc = "returned" /\ ret # None) => ret[1].positive_coords = positive_coords
    /\ pc = "saved_dfs" =>
           \A i \in DOMAIN labels :
               /\ labels[i] \in {0, 1}
               /\ (labels[i] = 1) <=> (Len(results[i + 1][1].positive_coords) > 0)
               /\ (atom_labels[i] # <<>>) <=> (labels[i] = 1)

\* samples were saved, one with two positive coordinates and one with none
C3_Witness ==
    /\ pc = "saved_dfs"
    /\ \E i, j \in DOMAIN labels :
        /\ labels[i] = 1 /\ Len(atom_labels[i]) = 2
        /\ labels[j] = 0 /\ atom_labels[j] = <<>>

C5_RaisesOnUnknownPath ==
    (/\ pc = "determined"
     /\ force_labels = 2
     /\ ~Contains(path, Inactive)
     /\ ~Contains(path, Decoy)
     /\ ~Contains(path, Active))
        => dl = RaisedRuntimeError

\* C6: for every list of loaded molecules and every list of per-molecule
\* force labels, the multiprocessing path calls the_full_monty on the same
\* (ligand, force_label) pairs, in the same order, as the sequential path.
C6_SamePairs ==
    (pc = "loaded" /\ Len(path_labels) = Len(mols))
        => MpPairs(mols, path_labels) = SeqPairs(mols, path_labels)

\* C7: after save_dfs_and_get_labels the keys of labels and of atom_labels
\* are exactly the indices i with results[i] not None, the four sample files
\* are written for exactly those indices, and each kept sample keeps its
\* index in results.
C7_KeysAreKeptIndices ==
    pc = "saved_dfs" =>
        LET kept == {i \in 0..(Len(results) - 1) : results[i + 1] # None}
        IN  /\ DOMAIN labels = kept
            /\ DOMAIN atom_labels = kept
            /\ files = FileKinds \X kept
            /\ \A i \in kept : atom_labels[i] = results[i + 1][1].positive_coords

\* the first sample was discarded and the second, kept, is still number 1
C7_Witness ==
    /\ pc = "saved_dfs"
    /\ Len(results) = 2
    /\ results[1] = None
    /\ results[2] # None
    /\ DOMAIN labels = {1}

\* C8: whatever the_full_monty returned for each ligand, all discarded or no
\* valid molecule included, main does not raise while reporting the
\* discarded and positive fractions.
C8_ReportingNeverRaises == ~(pc = "raised" /\ error = "ZeroDivisionError")

====
